---- MODULE Spec2Model ----
(***************************************************************************)
(* Model of the tetris-rs engine (src/src/engine/mod.rs, piece.rs), the    *)
(* key handling of its driving loop (src/src/interface/mod.rs) and the     *)
(* start state built by main (src/src/main.rs).                            *)
(*                                                                         *)
(* Option<T> is modelled as a sequence: <<>> is None, <<v>> is Some(v).    *)
(* A Coordinate or Offset is a pair <<x, y>>.                              *)
(***************************************************************************)
EXTENDS Integers, Sequences, FiniteSets, TLC

VARIABLES
    matrix,            \* Engine.matrix: the array Matrix.0, index 0..SIZE-1
    bag,               \* Engine.bag: Vec<PieceKind>
    cursor,            \* Engine.cursor: Option<Piece>
    debug_assertions,  \* the build: TRUE when debug_assert! is compiled in
    panic,             \* "none", or the message of the panic that aborted the process
    last,              \* the last engine call: [op, arg, ret]
    yielded,           \* Some(v), v the last call's value when it is no unit, bool or Result
    event              \* the last key event handled by Interface::run ("none" outside it)

vars == <<matrix, bag, cursor, debug_assertions, panic, last, yielded, event>>

----------------------------------------------------------------------------
(* Bounds of the inputs of debug_test_cursor. *)
MaxPosX == 8
MaxPosY == 4

(* Program constants. *)
MaxGeomX == 8
MaxGeomY == 18

WIDTH == 10
HEIGHT == 20
SIZE == WIDTH * HEIGHT
CELL_COUNT == 4

None == <<>>
Some(v) == <<v>>
NoColor == "None"

Kinds == {"O", "I", "T", "L", "J", "S", "Z"}
Rotations == {"N", "S", "E", "W"}
MoveKinds == {"Left", "Right"}

NoPanic == "none"
PanicNoCursor == "called place_cursor without cursor"
PanicUnplaceable == "Tried to place cursor in an unplaceable location"
PanicCellsUnwrap == "called Option::unwrap() on a None value (cells)"
PanicIndexAssert == "assertion failed: Self::on_matrix(coord)"
PanicIndexBounds == "index out of bounds"
PanicTickUnwrap == "called Option::unwrap() on a None value (ticked_down_cursor)"
PanicBagAssert == "assertion failed: self.bag.is_empty()"
PanicMoveUnwrap == "called Result::unwrap() on an Err value (move_cursor)"

----------------------------------------------------------------------------
(* piece.rs *)

Add(a, b) == <<a[1] + b[1], a[2] + b[2]>>
Scale(a, k) == <<a[1] * k, a[2] * k>>

(* Mutant: the T kind's table names the offset (1,1) twice. *)
Kind_cells_repeated(kind) ==
    CASE kind = "O" -> << <<1, 1>>, <<1, 2>>, <<2, 2>>, <<2, 1>> >>
      [] kind = "I" -> << <<0, 2>>, <<1, 2>>, <<2, 2>>, <<3, 2>> >>
      [] kind = "T" -> << <<0, 1>>, <<1, 1>>, <<1, 1>>, <<2, 1>> >>
      [] kind = "L" -> << <<0, 1>>, <<1, 1>>, <<2, 1>>, <<2, 2>> >>
      [] kind = "J" -> << <<0, 1>>, <<0, 2>>, <<1, 1>>, <<2, 1>> >>
      [] kind = "S" -> << <<0, 1>>, <<1, 1>>, <<1, 2>>, <<2, 2>> >>
      [] kind = "Z" -> << <<0, 2>>, <<1, 2>>, <<1, 1>>, <<2, 1>> >>

Kind_cells(kind) ==
    CASE kind = "O" -> << <<1, 1>>, <<1, 2>>, <<2, 2>>, <<2, 1>> >>
      [] kind = "I" -> << <<0, 2>>, <<1, 2>>, <<2, 2>>, <<3, 2>> >>
      [] kind = "T" -> << <<0, 1>>, <<1, 1>>, <<1, 2>>, <<2, 1>> >>
      [] kind = "L" -> << <<0, 1>>, <<1, 1>>, <<2, 1>>, <<2, 2>> >>
      [] kind = "J" -> << <<0, 1>>, <<0, 2>>, <<1, 1>>, <<2, 1>> >>
      [] kind = "S" -> << <<0, 1>>, <<1, 1>>, <<1, 2>>, <<2, 2>> >>
      [] kind = "Z" -> << <<0, 2>>, <<1, 2>>, <<1, 1>>, <<2, 1>> >>

grid_size(kind) == IF kind = "I" THEN 4 ELSE 3

color(kind) ==
    CASE kind = "O" -> "Yellow"
      [] kind = "I" -> "Cyan"
      [] kind = "T" -> "Purple"
      [] kind = "L" -> "Orange"
      [] kind = "J" -> "Blue"
      [] kind = "S" -> "Green"
      [] kind = "Z" -> "Red"

Colors == {color(k) : k \in Kinds}

(* Mutant: the pivot corrections of E and W are exchanged. *)
intrinsic_offset_exchanged(rotation) ==
    CASE rotation = "N" -> <<0, 0>>
      [] rotation = "S" -> <<1, 1>>
      [] rotation = "E" -> <<1, 0>>
      [] rotation = "W" -> <<0, 1>>

intrinsic_offset(rotation) ==
    CASE rotation = "N" -> <<0, 0>>
      [] rotation = "S" -> <<1, 1>>
      [] rotation = "E" -> <<0, 1>>
      [] rotation = "W" -> <<1, 0>>

(* impl Mul<Rotation> for Offset *)
mul(cell, rotation) ==
    CASE rotation = "N" -> cell
      [] rotation = "S" -> <<-cell[1], -cell[2]>>
      [] rotation = "E" -> <<cell[2], -cell[1]>>
      [] rotation = "W" -> <<-cell[2], cell[1]>>

rotator(piece, cell) ==
    IF piece.kind = "O"
    THEN cell
    ELSE Add(mul(cell, piece.rotation),
             Scale(intrinsic_offset(piece.rotation), grid_size(piece.kind) - 1))

positioner(piece, cell) == Add(cell, piece.position)

(* The world-space offsets of the piece, before the cast to Coordinate. *)
offset_of(piece, cell) == positioner(piece, rotator(piece, cell))

offsets(piece) ==
    LET cells == Kind_cells(piece.kind) IN
    << offset_of(piece, cells[1]), offset_of(piece, cells[2]),
       offset_of(piece, cells[3]), offset_of(piece, cells[4]) >>

(* Offset::cast::<usize>: None when a component is negative. *)
cast_usize(offset) == IF offset[1] >= 0 /\ offset[2] >= 0 THEN Some(offset) ELSE None

valid_coord(coord) == coord[1] < WIDTH

on_matrix(coord) == coord[1] < WIDTH /\ coord[2] < HEIGHT

indexing(coord) == coord[2] * WIDTH + coord[1]

(* Piece::cells: None, or Some of the four coordinates in table order. *)
Piece_cells(piece) ==
    CHOOSE cells \in { IF \A i \in 1..CELL_COUNT :
                            /\ cast_usize(offs[i]) # None
                            /\ valid_coord(cast_usize(offs[i])[1])
                       THEN Some(offs)
                       ELSE None : offs \in {offsets(piece)} } : TRUE

moved_by(piece, offset) == [piece EXCEPT !.position = Add(piece.position, offset)]

----------------------------------------------------------------------------
(* mod.rs: Matrix *)

blank == [i \in 0..(SIZE - 1) |-> NoColor]

(* impl Index<Coordinate> for Matrix, on a coordinate that is on the matrix. *)
index(m, coord) == m[indexing(coord)]

(* Mutant: a piece that cannot be projected is reported as placeable. *)
is_placeable_unprojectable_free(m, piece) ==
    LET cells == Piece_cells(piece) IN
    IF cells # None
    THEN \A i \in 1..CELL_COUNT :
            on_matrix(cells[1][i]) /\ index(m, cells[1][i]) = NoColor
    ELSE TRUE

is_placeable(m, piece) ==
    \E cells \in {Piece_cells(piece)} :
        IF cells # None
        THEN \A i \in 1..CELL_COUNT :
                on_matrix(cells[1][i]) /\ index(m, cells[1][i]) = NoColor
        ELSE FALSE


(* Mutant: occupied cells are not looked at, only the bounds. *)
is_clipping_bounds_only(m, piece) ==
    LET cells == Piece_cells(piece) IN
    IF cells # None
    THEN \E i \in 1..CELL_COUNT : ~on_matrix(cells[1][i])
    ELSE TRUE

(* Mutant: a piece that cannot be projected is reported as not clipping. *)
is_clipping_unprojectable_free(m, piece) ==
    LET cells == Piece_cells(piece) IN
    IF cells # None
    THEN \E i \in 1..CELL_COUNT :
            ~on_matrix(cells[1][i]) \/ index(m, cells[1][i]) # NoColor
    ELSE FALSE

is_clipping(m, piece) ==
    \E cells \in {Piece_cells(piece)} :
        IF cells # None
        THEN \E i \in 1..CELL_COUNT :
                ~on_matrix(cells[1][i]) \/ index(m, cells[1][i]) # NoColor
        ELSE TRUE

----------------------------------------------------------------------------
(* mod.rs: Engine.  An operation takes the engine (self: matrix, bag,      *)
(* cursor) and yields the engine after it, with the value it returned and  *)
(* the panic that aborted it, if any.                                      *)

Engine(m, b, c) == [matrix |-> m, bag |-> b, cursor |-> c]

Returned(self, ret) ==
    [matrix |-> self.matrix, bag |-> self.bag, cursor |-> self.cursor,
     panic |-> NoPanic, ret |-> ret]

Panicked(self, msg) ==
    [matrix |-> self.matrix, bag |-> self.bag, cursor |-> self.cursor,
     panic |-> msg, ret |-> "!"]

Engine_new == Engine(blank, <<>>, None)

with_matrix(m) == [Engine_new EXCEPT !.matrix = m]

(* Kind::ALL, in declaration order *)
Kind_ALL == <<"O", "I", "T", "L", "J", "S", "Z">>

(* SliceRandom::shuffle: every ordering of the same entries is a possible   *)
(* outcome of the random number generator.                                  *)
shuffle(seq) ==
    { [i \in 1..Len(seq) |-> seq[p[i]]] : p \in Permutations(1..Len(seq)) }

(* Mutant: the list the bag is refilled from names S twice and Z never. *)
refill_bag_repeated_kind(self) ==
    IF debug_assertions /\ self.bag # <<>>
    THEN {Panicked(self, PanicBagAssert)}
    ELSE {Returned([self EXCEPT !.bag = b], "()") :
             b \in shuffle(self.bag \o <<"O", "I", "T", "L", "J", "S", "S">>)}

(* Engine::refill_bag: the set of its outcomes, one per shuffle *)
refill_bag(self) ==
    IF debug_assertions /\ self.bag # <<>>
    THEN {Panicked(self, PanicBagAssert)}
    ELSE {Returned([self EXCEPT !.bag = b], "()") :
             b \in shuffle(self.bag \o Kind_ALL)}

debug_test_cursor(self, kind, position) ==
    Returned([self EXCEPT !.cursor =
                 Some([kind |-> kind, rotation |-> "N", position |-> position])],
             "()")

MoveKind_offset(kind) == IF kind = "Left" THEN <<-1, 0>> ELSE <<1, 0>>


(* Mutant: the row offset has the wrong sign. *)
ticked_up_cursor(self) ==
    IF self.cursor # None
    THEN LET new_cursor == moved_by(self.cursor[1], <<0, 1>>) IN
         IF ~is_clipping(self.matrix, new_cursor) THEN Some(new_cursor) ELSE None
    ELSE None

ticked_down_cursor(self) ==
    IF self.cursor # None
    THEN LET new_cursor == moved_by(self.cursor[1], <<0, -1>>) IN
         IF ~is_clipping(self.matrix, new_cursor) THEN Some(new_cursor) ELSE None
    ELSE None


(* Mutant: the check that a cursor exists is dropped. *)
cusor_has_hit_bottom_no_some(self) == ticked_down_cursor(self) = None

cusor_has_hit_bottom(self) ==
    self.cursor # None /\ ticked_down_cursor(self) = None


(* Mutant: the candidate is stored before it is validated. *)
move_cursor_unchecked(self, kind) ==
    IF self.cursor # None
    THEN LET new_cursor == moved_by(self.cursor[1], MoveKind_offset(kind)) IN
         IF is_clipping(self.matrix, new_cursor)
         THEN Returned([self EXCEPT !.cursor = Some(new_cursor)], "Err")
         ELSE Returned([self EXCEPT !.cursor = Some(new_cursor)], "Ok")
    ELSE Returned(self, "Ok")

(* Mutant: a call without a cursor is reported as a failure. *)
move_cursor_empty_err(self, kind) ==
    IF self.cursor # None
    THEN LET new_cursor == moved_by(self.cursor[1], MoveKind_offset(kind)) IN
         IF is_clipping(self.matrix, new_cursor)
         THEN Returned(self, "Err")
         ELSE Returned([self EXCEPT !.cursor = Some(new_cursor)], "Ok")
    ELSE Returned(self, "Err")

move_cursor(self, kind) ==
    IF self.cursor # None
    THEN LET new_cursor == moved_by(self.cursor[1], MoveKind_offset(kind)) IN
         IF is_clipping(self.matrix, new_cursor)
         THEN Returned(self, "Err")
         ELSE Returned([self EXCEPT !.cursor = Some(new_cursor)], "Ok")
    ELSE Returned(self, "Ok")

(* self.cursor = Some(self.ticked_down_cursor().unwrap()) *)
(* Mutant: a cursor that cannot descend is written into the grid. *)
tick_down_locking(self) ==
    IF self.cursor = None
    THEN Panicked(self, PanicTickUnwrap)
    ELSE IF ticked_down_cursor(self) = None
    THEN Returned([self EXCEPT
                     !.matrix = [i \in 0..(SIZE - 1) |->
                                   IF \E k \in 1..CELL_COUNT :
                                        /\ cast_usize(offsets(self.cursor[1])[k]) # None
                                        /\ on_matrix(offsets(self.cursor[1])[k])
                                        /\ indexing(offsets(self.cursor[1])[k]) = i
                                   THEN color(self.cursor[1].kind)
                                   ELSE self.matrix[i]],
                     !.cursor = None], "()")
    ELSE Returned([self EXCEPT !.cursor = ticked_down_cursor(self)], "()")

tick_down(self) ==
    IF ticked_down_cursor(self) = None
    THEN Panicked(self, PanicTickUnwrap)
    ELSE Returned([self EXCEPT !.cursor = ticked_down_cursor(self)], "()")

(* impl IndexMut<Coordinate> for Matrix, then the store: the matrix after  *)
(* self.matrix[coord] = value, or the panic of the access.                 *)
index_mut_set(m, coord, value) ==
    IF debug_assertions /\ ~on_matrix(coord)
    THEN [matrix |-> m, panic |-> PanicIndexAssert]
    ELSE IF indexing(coord) >= SIZE
    THEN [matrix |-> m, panic |-> PanicIndexBounds]
    ELSE [matrix |-> [m EXCEPT ![indexing(coord)] = value], panic |-> NoPanic]

(* for coord in cells { self.matrix[coord] = Some(color) }, from cell i on *)
RECURSIVE write_cells(_, _, _, _)
write_cells(m, cells, value, i) ==
    IF i > CELL_COUNT
    THEN [matrix |-> m, panic |-> NoPanic]
    ELSE LET w == index_mut_set(m, cells[i], value) IN
         IF w.panic # NoPanic THEN w ELSE write_cells(w.matrix, cells, value, i + 1)

place_cursor(self) ==
    IF self.cursor = None
    THEN Panicked(self, PanicNoCursor)
    ELSE LET piece == self.cursor[1]
             taken == [self EXCEPT !.cursor = None]
         IN  IF debug_assertions /\ ~is_placeable(self.matrix, piece)
             THEN Panicked(taken, PanicUnplaceable)
             ELSE IF Piece_cells(piece) = None
             THEN Panicked(taken, PanicCellsUnwrap)
             ELSE LET w == write_cells(self.matrix, Piece_cells(piece)[1],
                                       color(piece.kind), 1)
                  IN  IF w.panic # NoPanic
                      THEN Panicked([taken EXCEPT !.matrix = w.matrix], w.panic)
                      ELSE Returned([taken EXCEPT !.matrix = w.matrix], "()")


(* Mutant: `if let` in place of `while let`: at most one row of descent. *)
drop_once(self) ==
    LET new_cursor == ticked_down_cursor(self) IN
    IF new_cursor # None THEN [self EXCEPT !.cursor = new_cursor] ELSE self

(* while let Some(new_cursor) = self.ticked_down_cursor() { ... } *)
RECURSIVE drop_loop(_)
drop_loop(self) ==
    LET new_cursor == ticked_down_cursor(self) IN
    IF new_cursor # None
    THEN drop_loop([self EXCEPT !.cursor = new_cursor])
    ELSE self


(* Mutant: the descent is skipped and the cursor is locked where it is. *)
hard_drop_no_descent(self) == place_cursor(self)

hard_drop(self) == place_cursor(drop_loop(self))

(* impl Index<Coordinate> for Matrix, on any coordinate: the panic, or the  *)
(* place `at` of the array that is read and the value found there.         *)
Index_index(m, coord) ==
    IF debug_assertions /\ ~on_matrix(coord)
    THEN [panic |-> PanicIndexAssert, at |-> None, ret |-> None]
    ELSE IF indexing(coord) >= SIZE
    THEN [panic |-> PanicIndexBounds, at |-> None, ret |-> None]
    ELSE [panic |-> NoPanic, at |-> Some(indexing(coord)),
          ret |-> Some(m[indexing(coord)])]

(* Mutant: the cell is read before the coordinate is tested. *)
RECURSIVE any_clipping_read_first(_, _, _, _)
any_clipping_read_first(m, cells, i, reads) ==
    IF i > CELL_COUNT
    THEN [ret |-> FALSE, reads |-> reads, panic |-> NoPanic]
    ELSE LET r == Index_index(m, cells[i]) IN
         IF r.panic # NoPanic
         THEN [ret |-> FALSE, reads |-> reads, panic |-> r.panic]
         ELSE IF r.ret[1] # NoColor \/ ~on_matrix(cells[i])
         THEN [ret |-> TRUE, reads |-> Append(reads, cells[i]), panic |-> NoPanic]
         ELSE any_clipping_read_first(m, cells, i + 1, Append(reads, cells[i]))

(* Matrix::is_clipping's `any(|coord| !on_matrix(coord) || self[coord]      *)
(* .is_some())` from the i-th coordinate on: its value, the coordinates     *)
(* whose cells it has read, and the panic of a read. `any` stops at the     *)
(* first true, `||` does not evaluate its right side after a true left.     *)
RECURSIVE any_clipping(_, _, _, _)
any_clipping(m, cells, i, reads) ==
    IF i > CELL_COUNT
    THEN [ret |-> FALSE, reads |-> reads, panic |-> NoPanic]
    ELSE IF ~on_matrix(cells[i])
    THEN [ret |-> TRUE, reads |-> reads, panic |-> NoPanic]
    ELSE LET r == Index_index(m, cells[i]) IN
         IF r.panic # NoPanic
         THEN [ret |-> FALSE, reads |-> reads, panic |-> r.panic]
         ELSE IF r.ret[1] # NoColor
         THEN [ret |-> TRUE, reads |-> Append(reads, cells[i]), panic |-> NoPanic]
         ELSE any_clipping(m, cells, i + 1, Append(reads, cells[i]))

(* Matrix::is_placeable's `all(|coord| on_matrix(coord) && self[coord]      *)
(* .is_none())`, likewise: `all` stops at the first false.                  *)
RECURSIVE all_placeable(_, _, _, _)
all_placeable(m, cells, i, reads) ==
    IF i > CELL_COUNT
    THEN [ret |-> TRUE, reads |-> reads, panic |-> NoPanic]
    ELSE IF ~on_matrix(cells[i])
    THEN [ret |-> FALSE, reads |-> reads, panic |-> NoPanic]
    ELSE LET r == Index_index(m, cells[i]) IN
         IF r.panic # NoPanic
         THEN [ret |-> FALSE, reads |-> reads, panic |-> r.panic]
         ELSE IF r.ret[1] # NoColor
         THEN [ret |-> FALSE, reads |-> Append(reads, cells[i]), panic |-> NoPanic]
         ELSE all_placeable(m, cells, i + 1, Append(reads, cells[i]))

(* Matrix::is_clipping and Matrix::is_placeable with the reads they make *)
Matrix_is_clipping(m, piece) ==
    LET cells == Piece_cells(piece) IN
    IF cells # None
    THEN any_clipping(m, cells[1], 1, <<>>)
    ELSE [ret |-> TRUE, reads |-> <<>>, panic |-> NoPanic]

Matrix_is_placeable(m, piece) ==
    LET cells == Piece_cells(piece) IN
    IF cells # None
    THEN all_placeable(m, cells[1], 1, <<>>)
    ELSE [ret |-> FALSE, reads |-> <<>>, panic |-> NoPanic]

(* Mutant: the column is not reduced modulo WIDTH. *)
grid_incd_no_wrap(coord) ==
    LET x == coord[1] + 1 IN
    IF x = 0 THEN <<x, coord[2] + 1>> ELSE <<x, coord[2]>>

(* impl GridIncrement for Coordinate *)
grid_incd(coord) ==
    LET x == (coord[1] + 1) % WIDTH IN
    IF x = 0 THEN <<x, coord[2] + 1>> ELSE <<x, coord[2]>>

(* Engine::cells: the iterator at the origin, over the slice Matrix.0;     *)
(* `at` is the slice iterator's place.                                     *)
Engine_cells(self) == [position |-> <<0, 0>>, slice |-> self.matrix, at |-> 0]

(* CellIter::next: None, or Some(<<item, iterator after>>) *)
CellIter_next(it) ==
    IF it.at < SIZE
    THEN Some(<< <<it.position, it.slice[it.at]>>,
                 [it EXCEPT !.position = grid_incd(it.position), !.at = it.at + 1] >>)
    ELSE None

(* rotate_clockwise is called by Interface::run but its body is not in the  *)
(* engine source; it is modelled from the specification's section 4.4.     *)
(* Mutant: the rotation steps through the cycle backwards. *)
rotate_ccw(rotation) ==
    CASE rotation = "N" -> "W"
      [] rotation = "W" -> "S"
      [] rotation = "S" -> "E"
      [] rotation = "E" -> "N"

rotate_cw(rotation) ==
    CASE rotation = "N" -> "E"
      [] rotation = "E" -> "S"
      [] rotation = "S" -> "W"
      [] rotation = "W" -> "N"

rotate_clockwise(self) ==
    IF self.cursor # None
    THEN LET new_cursor == [self.cursor[1] EXCEPT !.rotation = rotate_cw(@)] IN
         IF is_clipping(self.matrix, new_cursor)
         THEN Returned(self, "Err")
         ELSE Returned([self EXCEPT !.cursor = Some(new_cursor)], "Ok")
    ELSE Returned(self, "Ok")

----------------------------------------------------------------------------
(* The matrices the engine is constructed with. *)

with_cells(cells) ==
    [i \in 0..(SIZE - 1) |->
        IF \E c \in cells : indexing(c[1]) = i
        THEN (CHOOSE c \in cells : indexing(c[1]) = i)[2]
        ELSE NoColor]

(* main.rs: matrix[(1,1)] = Some(Color::Green) *)
main_matrix == with_cells({ <<<<1, 1>>, "Green">> })

(* A stack with an overhang (free cells under (5,2) and (6,2)), a cell on  *)
(* the right wall and one in the top row.                                  *)
stacked_matrix ==
    with_cells({ <<<<4, 0>>, "Blue">>, <<<<4, 1>>, "Blue">>, <<<<4, 2>>, "Red">>,
                 <<<<5, 2>>, "Red">>, <<<<6, 2>>, "Cyan">>, <<<<9, 5>>, "Orange">>,
                 <<<<0, 19>>, "Purple">> })

(* test::cell_iter: (2,0) Blue and (3,1) Green *)
cell_iter_matrix == with_cells({ <<<<2, 0>>, "Blue">>, <<<<3, 1>>, "Green">> })

TestMatrices == {blank, main_matrix, stacked_matrix}

(* The positions of the pieces handed to Piece::cells and to the Matrix     *)
(* predicates: from left of and below the grid to its right wall and top.  *)
GeomPositions == (-2..MaxGeomX) \X (-2..MaxGeomY)

(* The coordinates the grid is indexed at: its corners, and the first       *)
(* column and row beyond them.                                              *)
IndexCoords == {0, WIDTH - 1, WIDTH} \X {0, HEIGHT - 1, HEIGHT}

TestPositions == (-1..MaxPosX) \X (-2..MaxPosY)

----------------------------------------------------------------------------
(* The state machine. *)

self == Engine(matrix, bag, cursor)

Running == panic = NoPanic

(* The engine becomes `out`; `op(arg)` is recorded as the last call. *)
Call(op, arg, out) ==
    /\ matrix' = out.matrix
    /\ bag' = out.bag
    /\ cursor' = out.cursor
    /\ panic' = out.panic
    /\ last' = [op |-> op, arg |-> arg, ret |-> out.ret]
    /\ yielded' = None
    /\ UNCHANGED debug_assertions

Init ==
    /\ \E m \in TestMatrices :
          LET e == with_matrix(m) IN
          /\ matrix = e.matrix
          /\ bag = e.bag
          /\ cursor = e.cursor
    /\ debug_assertions \in BOOLEAN
    /\ panic = NoPanic
    /\ last = [op |-> "with_matrix", arg |-> "", ret |-> "Self"]
    /\ yielded = None
    /\ event = "none"

(* main.rs: debug_test_cursor follows the construction. *)
DebugTestCursor ==
    /\ Running
    /\ last.op = "with_matrix"
    /\ \E kind \in Kinds, position \in TestPositions :
          Call("debug_test_cursor", "", debug_test_cursor(self, kind, position))
    /\ UNCHANGED event

MoveCursor ==
    /\ Running
    /\ \E kind \in MoveKinds : Call("move_cursor", kind, move_cursor(self, kind))
    /\ UNCHANGED event

CusorHasHitBottom ==
    /\ Running
    /\ Call("cusor_has_hit_bottom", "",
            Returned(self, IF cusor_has_hit_bottom(self) THEN "true" ELSE "false"))
    /\ UNCHANGED event

TickDown ==
    /\ Running
    /\ Call("tick_down", "", tick_down(self))
    /\ UNCHANGED event

HardDrop ==
    /\ Running
    /\ Call("hard_drop", "", hard_drop(self))
    /\ UNCHANGED event

PlaceCursor ==
    /\ Running
    /\ Call("place_cursor", "", place_cursor(self))
    /\ UNCHANGED event

(* A call whose value is kept: the engine is as it was. *)
CallValue(op, arg, v) ==
    /\ last' = [op |-> op, arg |-> arg, ret |-> "value"]
    /\ yielded' = Some(v)
    /\ UNCHANGED <<matrix, bag, cursor, debug_assertions, panic>>

(* engine.cells(): the iterator, no item taken yet *)
Cells ==
    /\ Running
    /\ CallValue("cells", "", [it |-> Engine_cells(self), item |-> None, n |-> 0])
    /\ UNCHANGED event

Next ==
    \/ DebugTestCursor
    \/ MoveCursor
    \/ CusorHasHitBottom
    \/ TickDown
    \/ HardDrop
    \/ PlaceCursor
    \/ Cells

Spec == Init /\ [][Next]_vars

----------------------------------------------------------------------------
(* main.rs and interface/mod.rs: the driving loop's key handling, from the *)
(* state main builds: with_matrix(main_matrix), then a T cursor at (5,5).  *)

InitUI ==
    /\ LET e == debug_test_cursor(with_matrix(main_matrix), "T", <<5, 5>>) IN
       /\ matrix = e.matrix
       /\ bag = e.bag
       /\ cursor = e.cursor
    /\ debug_assertions \in BOOLEAN
    /\ panic = NoPanic
    /\ last = [op |-> "debug_test_cursor", arg |-> "", ret |-> "()"]
    /\ yielded = None
    /\ event = "none"

(* Result::unwrap on the value move_cursor returned *)
unwrap(out) == IF out.ret = "Err" THEN [out EXCEPT !.panic = PanicMoveUnwrap] ELSE out

KeyRight ==
    /\ Running
    /\ Call("move_cursor", "Right", unwrap(move_cursor(self, "Right")))
    /\ event' = "Right"

KeyLeft ==
    /\ Running
    /\ Call("move_cursor", "Left", unwrap(move_cursor(self, "Left")))
    /\ event' = "Left"

KeySpace ==
    /\ Running
    /\ Call("hard_drop", "", hard_drop(self))
    /\ event' = "Space"

KeyUp ==
    /\ Running
    /\ Call("rotate_clockwise", "", rotate_clockwise(self))
    /\ event' = "Up"

(* Keycode::Down => {} *)
KeyDown ==
    /\ Running
    /\ event' = "Down"
    /\ UNCHANGED <<matrix, bag, cursor, debug_assertions, panic, last, yielded>>

NextUI ==
    \/ KeyRight
    \/ KeyLeft
    \/ KeySpace
    \/ KeyUp
    \/ KeyDown

SpecUI == InitUI /\ [][NextUI]_vars

----------------------------------------------------------------------------
(* The bag: Engine::new, then refill_bag called as its assertion requires,  *)
(* on an empty bag.                                                         *)

InitBag ==
    /\ matrix = Engine_new.matrix
    /\ bag = Engine_new.bag
    /\ cursor = Engine_new.cursor
    /\ debug_assertions \in BOOLEAN
    /\ panic = NoPanic
    /\ last = [op |-> "new", arg |-> "", ret |-> "Self"]
    /\ yielded = None
    /\ event = "none"

RefillBag ==
    /\ Running
    /\ bag = <<>>
    /\ \E out \in refill_bag(self) : Call("refill_bag", "", out)
    /\ UNCHANGED event

NextBag == RefillBag

SpecBag == InitBag /\ [][NextBag]_vars

----------------------------------------------------------------------------
(* The drawing loop `for (coord, cell) in engine.cells()`: the iterator is  *)
(* made and next() is called until it returns None.                         *)

InitIter ==
    /\ \E m \in TestMatrices \cup {cell_iter_matrix} :
          /\ matrix = with_matrix(m).matrix
          /\ bag = with_matrix(m).bag
          /\ cursor = with_matrix(m).cursor
    /\ debug_assertions \in BOOLEAN
    /\ panic = NoPanic
    /\ last = [op |-> "with_matrix", arg |-> "", ret |-> "Self"]
    /\ yielded = None
    /\ event = "none"

CellIterNext ==
    /\ Running
    /\ last.op \in {"cells", "next"}
    /\ (last.op = "next") => (yielded[1].item # None)
    /\ \E r \in {CellIter_next(yielded[1].it)} :
          yielded' = Some([it   |-> IF r = None THEN yielded[1].it ELSE r[1][2],
                           item |-> IF r = None THEN None ELSE Some(r[1][1]),
                           n    |-> yielded[1].n + 1])
    /\ last' = [op |-> "next", arg |-> "", ret |-> "value"]
    /\ UNCHANGED <<matrix, bag, cursor, debug_assertions, panic, event>>

NextIter ==
    \/ Cells
    \/ CellIterNext

SpecIter == InitIter /\ [][NextIter]_vars

----------------------------------------------------------------------------
(* Piece and Matrix on their own: a grid, and either a piece built field by *)
(* field as in test::s_piece_position, which is projected and validated, or *)
(* no piece, and the grid is indexed as main does.                          *)

InitGeom ==
    /\ matrix \in {blank, stacked_matrix}
    /\ bag = <<>>
    /\ cursor \in {None} \cup
                  {Some([kind |-> kind, rotation |-> rotation, position |-> position]) :
                       kind \in Kinds, rotation \in Rotations, position \in GeomPositions}
    /\ debug_assertions \in BOOLEAN
    /\ panic = NoPanic
    /\ last = [op |-> "Piece", arg |-> "", ret |-> "Self"]
    /\ yielded = None
    /\ event = "none"

PieceCells ==
    /\ Running
    /\ cursor # None
    /\ CallValue("Piece::cells", "", Piece_cells(cursor[1]))
    /\ UNCHANGED event

(* A read-only Matrix call: r is its value, its reads and its panic. *)
MatrixCall(op, r) ==
    /\ last' = [op |-> op, arg |-> "", ret |-> IF r.panic = NoPanic THEN "value" ELSE "!"]
    /\ yielded' = Some(r)
    /\ panic' = r.panic
    /\ UNCHANGED <<matrix, bag, cursor, debug_assertions, event>>

MatrixIsClipping ==
    /\ Running
    /\ cursor # None
    /\ MatrixCall("Matrix::is_clipping", Matrix_is_clipping(matrix, cursor[1]))

MatrixIsPlaceable ==
    /\ Running
    /\ cursor # None
    /\ MatrixCall("Matrix::is_placeable", Matrix_is_placeable(matrix, cursor[1]))

MatrixIndex ==
    /\ Running
    /\ cursor = None
    /\ \E coord \in IndexCoords :
          \E r \in {Index_index(matrix, coord)} :
             MatrixCall("Index::index", [coord |-> coord, at |-> r.at,
                                         ret |-> r.ret, panic |-> r.panic])

MatrixIndexMut ==
    /\ Running
    /\ cursor = None
    /\ \E coord \in IndexCoords :
          \E r \in {index_mut_set(matrix, coord, "Green")} :
             /\ matrix' = r.matrix
             /\ panic' = r.panic
             /\ last' = [op |-> "IndexMut::index_mut", arg |-> "",
                         ret |-> IF r.panic = NoPanic THEN "()" ELSE "!"]
             /\ yielded' = Some([coord |-> coord, before |-> matrix])
             /\ UNCHANGED <<bag, cursor, debug_assertions, event>>

NextGeom ==
    \/ PieceCells
    \/ MatrixIsClipping
    \/ MatrixIsPlaceable
    \/ MatrixIndex
    \/ MatrixIndexMut

SpecGeom == InitGeom /\ [][NextGeom]_vars

----------------------------------------------------------------------------
(* hard_drop step by step: every iteration of its `while let` loop is a     *)
(* step, from an engine whose cursor debug_test_cursor has set anywhere     *)
(* from below the grid to its top. The loop runs in one thread and calls    *)
(* nothing that blocks, so an iteration that can run does run.              *)

DropPositions == (-1..MaxPosX) \X (-2..MaxGeomY)

InitDrop ==
    /\ \E m \in TestMatrices, kind \in Kinds, position \in DropPositions :
          \A out \in {debug_test_cursor(with_matrix(m), kind, position)} :
             /\ matrix = out.matrix
             /\ bag = out.bag
             /\ cursor = out.cursor
    /\ debug_assertions \in BOOLEAN
    /\ panic = NoPanic
    /\ last = [op |-> "debug_test_cursor", arg |-> "", ret |-> "()"]
    /\ yielded = None
    /\ event = "none"

(* the call: control is at the head of the loop *)
HardDropEnter ==
    /\ Running
    /\ last.op # "hard_drop"
    /\ last' = [op |-> "hard_drop", arg |-> "", ret |-> "while let"]
    /\ UNCHANGED <<matrix, bag, cursor, debug_assertions, panic, yielded, event>>

(* `while let Some(new_cursor) = self.ticked_down_cursor()`: the body *)
DropStep ==
    /\ Running
    /\ last.ret = "while let"
    /\ ticked_down_cursor(self) # None
    /\ cursor' = ticked_down_cursor(self)
    /\ UNCHANGED <<matrix, bag, debug_assertions, panic, last, yielded, event>>

(* the loop's exit: `ticked_down_cursor()` is None, place_cursor is next *)
DropExit ==
    /\ Running
    /\ last.ret = "while let"
    /\ ticked_down_cursor(self) = None
    /\ last' = [op |-> "hard_drop", arg |-> "", ret |-> "place_cursor"]
    /\ UNCHANGED <<matrix, bag, cursor, debug_assertions, panic, yielded, event>>

(* `self.place_cursor()`, and the return *)
DropPlace ==
    /\ Running
    /\ last.ret = "place_cursor"
    /\ Call("hard_drop", "", place_cursor(self))
    /\ UNCHANGED event

NextDrop ==
    \/ HardDropEnter
    \/ DropStep
    \/ DropExit
    \/ DropPlace

SpecDrop ==
    /\ InitDrop
    /\ [][NextDrop]_vars
    /\ WF_vars(DropStep)
    /\ WF_vars(DropExit)

----------------------------------------------------------------------------
(* Properties. *)

Translated(piece, dx, dy) ==
    [kind |-> piece.kind, rotation |-> piece.rotation,
     position |-> <<piece.position[1] + dx, piece.position[2] + dy>>]

Occupied(m) == {i \in 0..(SIZE - 1) : m[i] # NoColor}

(* C1: with a cursor, move_cursor(d) fails and leaves cursor, grid and bag   *)
(* as they were when the cursor translated by d's unit offset is clipping;   *)
(* otherwise it succeeds and the position is shifted by exactly that offset. *)
C1_MoveCursor ==
    [][ (last'.op = "move_cursor" /\ cursor # None) =>
          LET dx == IF last'.arg = "Left" THEN -1 ELSE 1
              candidate == Translated(cursor[1], dx, 0)
          IN  IF is_clipping(matrix, candidate)
              THEN /\ last'.ret = "Err"
                   /\ cursor' = cursor
                   /\ matrix' = matrix
                   /\ bag' = bag
              ELSE /\ last'.ret = "Ok"
                   /\ cursor' = Some(candidate)
                   /\ matrix' = matrix
                   /\ bag' = bag ]_vars

(* A move of a non-clipping cursor was blocked by an occupied cell, with    *)
(* all four cells of the candidate on the matrix.                          *)
C1_Witness ==
    /\ last.op = "move_cursor"
    /\ last.ret = "Err"
    /\ cursor # None
    /\ ~is_clipping(matrix, cursor[1])
    /\ LET cells == Piece_cells(Translated(cursor[1],
                                           IF last.arg = "Left" THEN -1 ELSE 1, 0))
       IN  cells # None /\ \A i \in 1..CELL_COUNT : on_matrix(cells[1][i])

(* The largest k such that the piece translated 1..k rows down never clips. *)
DropDepth(m, piece) ==
    CHOOSE k \in 0..(HEIGHT + 4) :
        /\ \A j \in 1..k : ~is_clipping(m, Translated(piece, 0, -j))
        /\ is_clipping(m, Translated(piece, 0, -(k + 1)))

(* C2: from a non-clipping cursor, hard_drop moves the cursor down by the    *)
(* largest k whose steps 1..k are all non-clipping, writes the kind's color  *)
(* into exactly the four cells of that position, leaves every other cell     *)
(* unchanged and ends without a cursor.                                      *)
C2_HardDrop ==
    [][ (last'.op = "hard_drop" /\ cursor # None /\ ~is_clipping(matrix, cursor[1])) =>
          \A k \in {DropDepth(matrix, cursor[1])} :
          \A final \in {Piece_cells(Translated(cursor[1], 0, -k))[1]} :
          \A written \in {{indexing(final[n]) : n \in 1..CELL_COUNT}} :
              /\ panic' = NoPanic
              /\ cursor' = None
              /\ Cardinality(written) = CELL_COUNT
              /\ \A i \in 0..(SIZE - 1) :
                    matrix'[i] = IF i \in written
                                 THEN color(cursor[1].kind) ELSE matrix[i] ]_vars

(* A drop came to rest on the overhang of the stack, above free cells.      *)
C2_Witness ==
    /\ last.op = "hard_drop"
    /\ panic = NoPanic
    /\ cursor = None
    /\ matrix[indexing(<<5, 3>>)] # NoColor
    /\ matrix[indexing(<<5, 1>>)] = NoColor
    /\ matrix[indexing(<<5, 2>>)] = "Red"

(* C3 as claimed: cusor_has_hit_bottom() returns true iff tick_down() in that *)
(* state would fail, in every state, the Empty state included.               *)
C3_Original ==
    last.op = "cusor_has_hit_bottom" =>
        ((last.ret = "true") <=> (tick_down(self).panic # NoPanic))

(* C3 amended: in every state with a cursor, cusor_has_hit_bottom() returns   *)
(* true iff tick_down() would fail, which is iff the cursor one row down is  *)
(* clipping; without a cursor it returns false although tick_down() fails.   *)
C3_HitBottom ==
    last.op = "cusor_has_hit_bottom" =>
        IF cursor # None
        THEN /\ (last.ret = "true") <=> (tick_down(self).panic # NoPanic)
             /\ (last.ret = "true") <=> is_clipping(matrix, Translated(cursor[1], 0, -1))
        ELSE /\ last.ret = "false"
             /\ tick_down(self).panic # NoPanic

(* The query answered true for a non-clipping cursor resting on an occupied  *)
(* cell, above the floor.                                                    *)
C3_Witness ==
    /\ last.op = "cusor_has_hit_bottom"
    /\ last.ret = "true"
    /\ ~is_clipping(matrix, cursor[1])
    /\ LET cells == Piece_cells(Translated(cursor[1], 0, -1))
       IN  cells # None /\ \A i \in 1..CELL_COUNT : on_matrix(cells[1][i])

(* C4: from a non-clipping cursor, move_cursor and tick_down (called when    *)
(* cusor_has_hit_bottom() is false) leave the cursor non-clipping, and a lock *)
(* by hard_drop or place_cursor happens at a placeable location, passes the  *)
(* assertion of place_cursor and overwrites no occupied cell.                *)
C4_NeverClipping ==
    [][ (cursor # None /\ ~is_clipping(matrix, cursor[1])) =>
          /\ (last'.op = "move_cursor"
                \/ (last'.op = "tick_down" /\ ~cusor_has_hit_bottom(self))) =>
                /\ panic' = NoPanic
                /\ cursor' # None
                /\ ~is_clipping(matrix', cursor'[1])
          /\ last'.op \in {"hard_drop", "place_cursor"} =>
                \A k \in {IF last'.op = "hard_drop"
                          THEN DropDepth(matrix, cursor[1]) ELSE 0} :
                \A location \in {Translated(cursor[1], 0, -k)} :
                    /\ panic' = NoPanic
                    /\ is_placeable(matrix, location)
                    /\ \A i \in 0..(SIZE - 1) :
                          matrix[i] # NoColor => matrix'[i] = matrix[i]
                    /\ \A n \in 1..CELL_COUNT :
                          /\ matrix[indexing(Piece_cells(location)[1][n])] = NoColor
                          /\ matrix'[indexing(Piece_cells(location)[1][n])] # NoColor
      ]_vars

(* A debug build locked a cursor by place_cursor next to occupied cells: the *)
(* assertion was evaluated and passed.                                       *)
C4_Witness ==
    /\ last.op = "place_cursor"
    /\ panic = NoPanic
    /\ debug_assertions
    /\ cursor = None
    /\ Cardinality(Occupied(matrix)) = Cardinality(Occupied(stacked_matrix)) + CELL_COUNT
    /\ matrix[indexing(<<5, 1>>)] # NoColor

(* C5 as claimed: no sequence of key events (Left, Right, Up, Down, Space)   *)
(* from the state built in main makes place_cursor or tick_down run without *)
(* a cursor or with a non-placeable cursor; a Space after an earlier        *)
(* hard_drop does not reach place_cursor with no cursor.                    *)
C5_NoContractViolation ==
    panic \notin {PanicNoCursor, PanicUnplaceable, PanicCellsUnwrap,
                  PanicIndexAssert, PanicIndexBounds, PanicTickUnwrap}

(* The first Space locked the T cursor of main and left the engine Empty. *)
C5_Witness ==
    /\ event = "Space"
    /\ panic = NoPanic
    /\ cursor = None
    /\ Cardinality(Occupied(matrix)) = 1 + CELL_COUNT

(* C6 as claimed: when a Left or Right key event makes move_cursor return    *)
(* failure, the driving loop ignores it: the engine is unchanged and the    *)
(* loop goes on to later events, it does not abort.                         *)
C6_BlockedMoveIgnored ==
    [][ (event' \in {"Left", "Right"} /\ last'.op = "move_cursor" /\ last'.ret = "Err") =>
          /\ panic' = NoPanic
          /\ cursor' = cursor
          /\ matrix' = matrix
          /\ bag' = bag ]_vars

(* C7 as claimed: when hard_drop or place_cursor is invoked and the cursor's *)
(* final location is not placeable, the operation fails loudly, no occupied *)
(* cell is overwritten and no cell outside the grid is written.             *)
C7_LockFailsLoudly ==
    [][ (last'.op \in {"hard_drop", "place_cursor"} /\ cursor # None) =>
          \A location \in {IF last'.op = "hard_drop"
                           THEN drop_loop(self).cursor[1] ELSE cursor[1]} :
              ~is_placeable(matrix, location) =>
                  /\ panic' # NoPanic
                  /\ DOMAIN matrix' = 0..(SIZE - 1)
                  /\ \A i \in 0..(SIZE - 1) :
                        matrix[i] # NoColor => matrix'[i] = matrix[i] ]_vars

(* A lock at a location that is not placeable was refused with a panic. *)
C7_Witness ==
    /\ last.op \in {"hard_drop", "place_cursor"}
    /\ panic \in {PanicUnplaceable, PanicCellsUnwrap}

(* C8: on a blank grid, for every kind and non-clipping cursor position,     *)
(* after hard_drop exactly four cells are colored, all with the kind's      *)
(* color, in the columns of the cursor's cells before the drop, the lowest  *)
(* on row 0, and no cursor is present.                                      *)
C8_HardDropOnBlank ==
    [][ (last'.op = "hard_drop" /\ matrix = blank
           /\ cursor # None /\ ~is_clipping(matrix, cursor[1])) =>
          \A colored \in {Occupied(matrix')} :
              /\ Cardinality(colored) = 4
              /\ \A i \in colored : matrix'[i] = color(cursor[1].kind)
              /\ {i % WIDTH : i \in colored}
                    = {Piece_cells(cursor[1])[1][n][1] : n \in 1..CELL_COUNT}
              /\ \E i \in colored : i \div WIDTH = 0
              /\ cursor' = None
              /\ panic' = NoPanic ]_vars

(* An I piece was dropped on the blank grid and lies flat on row 0. *)
C8_Witness ==
    /\ last.op = "hard_drop"
    /\ cursor = None
    /\ Occupied(matrix) = {indexing(<<x, 0>>) : x \in 3..6}
    /\ \A x \in 3..6 : matrix[indexing(<<x, 0>>)] = "Cyan"

(* C9: with a cursor for which cusor_has_hit_bottom() is false, tick_down    *)
(* lowers the cursor's y by exactly 1 and leaves its x, kind and rotation   *)
(* unchanged; the state stays Active.                                       *)
C9_TickDown ==
    [][ (last'.op = "tick_down" /\ cursor # None /\ ~cusor_has_hit_bottom(self)) =>
          /\ panic' = NoPanic
          /\ cursor' # None
          /\ cursor'[1].position[2] = cursor[1].position[2] - 1
          /\ cursor'[1].position[1] = cursor[1].position[1]
          /\ cursor'[1].kind = cursor[1].kind
          /\ cursor'[1].rotation = cursor[1].rotation
          /\ matrix' = matrix
          /\ bag' = bag ]_vars

(* tick_down lowered a cursor into the free cells under the overhang. *)
C9_Witness ==
    /\ last.op = "tick_down"
    /\ panic = NoPanic
    /\ cursor # None
    /\ matrix = stacked_matrix
    /\ \E n \in 1..CELL_COUNT : offsets(cursor[1])[n] = <<5, 1>>

(* C10: without a cursor, move_cursor(d) returns success for both directions *)
(* and leaves the cursor absent and the grid and bag unchanged.             *)
C10_MoveCursorEmpty ==
    [][ (last'.op = "move_cursor" /\ cursor = None) =>
          /\ last'.ret = "Ok"
          /\ panic' = NoPanic
          /\ cursor' = None
          /\ matrix' = matrix
          /\ bag' = bag ]_vars

(* move_cursor(Left) was called on the Empty state a lock had left. *)
C10_Witness ==
    /\ last = [op |-> "move_cursor", arg |-> "Left", ret |-> "Ok"]
    /\ cursor = None
    /\ matrix \notin TestMatrices

(* C11: when a projected cell of the cursor is in column 0, move_cursor(Left) *)
(* fails and leaves the cursor as it was, and likewise move_cursor(Right)     *)
(* with a cell in column WIDTH-1; a move that changes the cursor leaves all   *)
(* four of its cells in columns 0..WIDTH-1.                                   *)
C11_WallBlocksMove ==
    [][ (last'.op = "move_cursor" /\ cursor # None) =>
          \A cells \in {Piece_cells(cursor[1])} :
            /\ ( /\ cells # None
                 /\ last'.arg = "Left"
                 /\ \E i \in 1..CELL_COUNT : cells[1][i][1] = 0 )
               => (last'.ret = "Err" /\ cursor' = cursor)
            /\ ( /\ cells # None
                 /\ last'.arg = "Right"
                 /\ \E i \in 1..CELL_COUNT : cells[1][i][1] = WIDTH - 1 )
               => (last'.ret = "Err" /\ cursor' = cursor)
            /\ (cursor' # cursor) =>
                 /\ cursor' # None
                 /\ \A i \in 1..CELL_COUNT :
                      offsets(cursor'[1])[i][1] \in 0..(WIDTH - 1) ]_vars

(* A cursor free of the stack, with a cell in the last column, was refused   *)
(* a move to the right.                                                      *)
C11_Witness ==
    /\ last.op = "move_cursor"
    /\ last.arg = "Right"
    /\ last.ret = "Err"
    /\ cursor # None
    /\ ~is_clipping(matrix, cursor[1])
    /\ \E i \in 1..CELL_COUNT : Piece_cells(cursor[1])[1][i][1] = WIDTH - 1

(* C12: move_cursor, tick_down, cusor_has_hit_bottom and cells() leave every *)
(* grid cell as it was; a grid cell changes only in a step of place_cursor   *)
(* or of hard_drop.                                                          *)
C12_GridChangedOnlyByLock ==
    [][ /\ (last'.op \in {"move_cursor", "tick_down", "cusor_has_hit_bottom", "cells"})
           => (matrix' = matrix)
        /\ (matrix' # matrix) => (last'.op \in {"place_cursor", "hard_drop"}) ]_vars

(* cells() was called on a grid that a lock had written, and the iterator    *)
(* it returned runs over that grid.                                          *)
C12_Witness ==
    /\ last.op = "cells"
    /\ matrix \notin TestMatrices
    /\ yielded # None
    /\ yielded[1].it.slice = matrix

(* C13: when refill_bag has run on an empty bag, whatever the shuffle, the   *)
(* bag holds exactly seven entries, each of O, I, T, L, J, S, Z once; and in *)
(* every reachable state the bag holds no kind twice and at most seven       *)
(* entries.                                                                  *)
C13_BagIsPermutation ==
    /\ Len(bag) <= 7
    /\ \A i, j \in 1..Len(bag) : (i # j) => (bag[i] # bag[j])
    /\ (last.op = "refill_bag" /\ panic = NoPanic) =>
         /\ Len(bag) = 7
         /\ \A kind \in {"O", "I", "T", "L", "J", "S", "Z"} :
              Cardinality({i \in 1..Len(bag) : bag[i] = kind}) = 1

(* A refill whose shuffle reversed the declaration order. *)
C13_Witness ==
    /\ last.op = "refill_bag"
    /\ panic = NoPanic
    /\ bag = <<"Z", "S", "J", "L", "T", "I", "O">>

(* C14: from the Empty state that a lock leaves, the next step of the core   *)
(* spawns the next piece: the cursor exists again and its kind has been      *)
(* removed from the bag, which was refilled first if it was empty.           *)
C14_SpawnAfterLock ==
    [][ (cursor = None /\ panic = NoPanic) =>
          /\ cursor' # None
          /\ \A before \in {IF bag = <<>> THEN Kind_ALL ELSE bag} :
               /\ Len(bag') = Len(before) - 1
               /\ {bag'[i] : i \in 1..Len(bag')} \cup {cursor'[1].kind}
                    = {before[i] : i \in 1..Len(before)} ]_vars

(* A step taken from the Empty state a hard drop left behind, after which   *)
(* there is still no cursor and the bag is still empty.                     *)
C14_Witness ==
    /\ last.op = "move_cursor"
    /\ matrix # main_matrix
    /\ cursor = None
    /\ bag = <<>>
    /\ panic = NoPanic

(* C15: rotate_clockwise keeps the position and kind and advances the        *)
(* rotation one step in the cycle N, E, S, W, N; when the rotated piece      *)
(* clips, the call is rejected and cursor and grid stay as they were. (The   *)
(* Up key is the event loop's call of rotate_clockwise.)                     *)
C15_RotateClockwise ==
    [][ (event' = "Up" /\ last'.op = "rotate_clockwise" /\ cursor # None) =>
          \A cycle \in {<<"N", "E", "S", "W", "N">>} :
          \A k \in {CHOOSE i \in 1..4 : cycle[i] = cursor[1].rotation} :
          \A rotated \in {[kind |-> cursor[1].kind,
                          rotation |-> cycle[k + 1],
                          position |-> cursor[1].position]} :
              /\ matrix' = matrix
              /\ IF is_clipping(matrix, rotated)
                 THEN last'.ret = "Err" /\ cursor' = cursor
                 ELSE last'.ret = "Ok" /\ cursor' = Some(rotated) ]_vars

(* A rotation was rejected: the cursor is free of the stack where it is,    *)
(* and the next rotation in the cycle would clip.                           *)
C15_Witness ==
    /\ last.op = "rotate_clockwise"
    /\ last.ret = "Err"
    /\ cursor # None
    /\ ~is_clipping(matrix, cursor[1])

(* C17: iterating the grid's cells yields exactly WIDTH * HEIGHT items; the  *)
(* k-th item, counted from 0, carries the coordinate (k mod WIDTH,           *)
(* k div WIDTH) and the value stored at that coordinate, so every cell is    *)
(* visited once, from (0,0), with x advancing before y. On the grid of       *)
(* test::cell_iter the items 2 and 13 are ((2,0), Blue) and ((3,1), Green).  *)
C17_CellIteration ==
    (last.op = "next") =>
        \A k \in {yielded[1].n - 1} :
            /\ (k < WIDTH * HEIGHT) =>
                 yielded[1].item =
                     Some(<< <<k % WIDTH, k \div WIDTH>>,
                             index(matrix, <<k % WIDTH, k \div WIDTH>>) >>)
            /\ (k >= WIDTH * HEIGHT) => (yielded[1].item = None)
            /\ (matrix = cell_iter_matrix /\ k = 2) =>
                 yielded[1].item = Some(<< <<2, 0>>, "Blue" >>)
            /\ (matrix = cell_iter_matrix /\ k = 13) =>
                 yielded[1].item = Some(<< <<3, 1>>, "Green" >>)

(* The last cell, (WIDTH-1, HEIGHT-1), has been yielded as item number      *)
(* WIDTH * HEIGHT - 1 of a grid with locked cells.                          *)
C17_Witness ==
    /\ last.op = "next"
    /\ matrix = stacked_matrix
    /\ yielded[1].n = WIDTH * HEIGHT
    /\ yielded[1].item = Some(<< <<WIDTH - 1, HEIGHT - 1>>, NoColor >>)

(* The rotation rules and pivot corrections as the specification states     *)
(* them, for the properties of Piece::cells.                                *)
RotatedByRule(c, rotation) ==
    CASE rotation = "N" -> c
      [] rotation = "S" -> <<-c[1], -c[2]>>
      [] rotation = "E" -> <<c[2], -c[1]>>
      [] rotation = "W" -> <<-c[2], c[1]>>

PivotCorrection(kind, rotation) ==
    LET n == (IF kind = "I" THEN 4 ELSE 3) - 1 IN
    CASE rotation = "N" -> <<0, 0>>
      [] rotation = "S" -> <<n, n>>
      [] rotation = "E" -> <<0, n>>
      [] rotation = "W" -> <<n, 0>>

InColumns(offs) ==
    \A i \in 1..4 : offs[i][1] >= 0 /\ offs[i][2] >= 0 /\ offs[i][1] < WIDTH

(* C16 as stated: every kind's canonical offsets, the O kind's included, are *)
(* rotated by the rule of the rotation state; the pivot correction is added  *)
(* for the kinds other than O; then the position is added.                   *)
C16_Original ==
    (last.op = "Piece::cells") =>
        \A p \in {cursor[1]} :
        \A claimed \in {[i \in 1..4 |->
                           Add(Add(RotatedByRule(Kind_cells(p.kind)[i], p.rotation),
                                   IF p.kind = "O" THEN <<0, 0>>
                                   ELSE PivotCorrection(p.kind, p.rotation)),
                               p.position)]} :
            InColumns(claimed) => (yielded[1] = Some(claimed))

(* C16: for every kind, rotation and position whose results are all          *)
(* non-negative with x < WIDTH, Piece::cells returns, in table order: for    *)
(* the O kind each canonical offset plus the position, whatever the          *)
(* rotation; for the other kinds each canonical offset rotated by the rule   *)
(* of the rotation (N identity, S negates both axes, E (x,y) to (y,-x),      *)
(* W (x,y) to (-y,x)), plus the pivot correction, plus the position. Kind S  *)
(* at (5,6) gives (6,6),(6,7),(5,7),(5,8) for W and (7,7),(6,7),(6,6),(5,6)  *)
(* for S.                                                                    *)
C16_PieceCells ==
    (last.op = "Piece::cells") =>
        \A p \in {cursor[1]} :
        \A expected \in {[i \in 1..4 |->
                            IF p.kind = "O"
                            THEN Add(Kind_cells(p.kind)[i], p.position)
                            ELSE Add(Add(RotatedByRule(Kind_cells(p.kind)[i], p.rotation),
                                         PivotCorrection(p.kind, p.rotation)),
                                     p.position)]} :
            /\ InColumns(expected) => (yielded[1] = Some(expected))
            /\ (p = [kind |-> "S", rotation |-> "W", position |-> <<5, 6>>]) =>
                 yielded[1] = Some(<< <<6, 6>>, <<6, 7>>, <<5, 7>>, <<5, 8>> >>)
            /\ (p = [kind |-> "S", rotation |-> "S", position |-> <<5, 6>>]) =>
                 yielded[1] = Some(<< <<7, 7>>, <<6, 7>>, <<6, 6>>, <<5, 6>> >>)

(* Piece::cells of an O piece in rotation S at (5,6): its canonical offsets  *)
(* (1,1),(1,2),(2,2),(2,1) moved by the position, not rotated.               *)
C16_Witness ==
    /\ last.op = "Piece::cells"
    /\ cursor = Some([kind |-> "O", rotation |-> "S", position |-> <<5, 6>>])
    /\ yielded = Some(Some(<< <<6, 7>>, <<6, 8>>, <<7, 8>>, <<7, 7>> >>))

(* C18: an access to the grid at a coordinate with x >= WIDTH or             *)
(* y >= HEIGHT is rejected: it reads no place of the array and writes none,  *)
(* so never the cell of another, in-bounds coordinate.                       *)
C18_NoAliasing ==
    /\ (last.op = "Index::index" /\ ~on_matrix(yielded[1].coord))
          => (panic # NoPanic /\ yielded[1].at = None)
    /\ (last.op = "IndexMut::index_mut" /\ ~on_matrix(yielded[1].coord))
          => (panic # NoPanic /\ matrix = yielded[1].before)

(* In a release build the write at (WIDTH, 0) has returned normally and has *)
(* set the cell of (0, 1), which was empty before.                          *)
C18_Witness ==
    /\ last.op = "IndexMut::index_mut"
    /\ ~debug_assertions
    /\ panic = NoPanic
    /\ yielded[1].coord = <<WIDTH, 0>>
    /\ index(yielded[1].before, <<0, 1>>) = NoColor
    /\ index(matrix, <<0, 1>>) = "Green"

(* C19 as stated: there is some grid, the current one or another, and some  *)
(* piece for which is_clipping differs from the negation of is_placeable.    *)
C19_Original ==
    \E m \in {blank, stacked_matrix, matrix} :
    \E kind \in Kinds, rotation \in Rotations, position \in GeomPositions :
        \A piece \in {[kind |-> kind, rotation |-> rotation, position |-> position]} :
            is_clipping(m, piece) # ~is_placeable(m, piece)

(* C19: is_clipping and is_placeable are complements: on every grid and for  *)
(* every piece, one that cannot be projected included, the value of          *)
(* is_clipping is the negation of is_placeable's and the reverse.            *)
C19_Complements ==
    /\ (last.op = "Matrix::is_clipping")
          => (yielded[1].ret = ~is_placeable(matrix, cursor[1]))
    /\ (last.op = "Matrix::is_placeable")
          => (yielded[1].ret = ~is_clipping(matrix, cursor[1]))

(* is_clipping has been called on a piece that cannot be projected (a       *)
(* negative offset, or x >= WIDTH): it is clipping, and it is not           *)
(* placeable.                                                               *)
C19_Witness ==
    /\ last.op = "Matrix::is_clipping"
    /\ Piece_cells(cursor[1]) = None
    /\ yielded[1].ret = TRUE
    /\ ~is_placeable(matrix, cursor[1])

(* C20: Piece::cells yields None exactly when some world-space offset has a  *)
(* negative x or y or an x >= WIDTH; with four offsets that are non-negative *)
(* with x < WIDTH it yields the four coordinates, also when some y is        *)
(* >= HEIGHT, and such a piece is reported as clipping and as not placeable; *)
(* neither predicate panics or reads a cell at a coordinate off the grid.    *)
C20_ProjectionAndHeight ==
    \A offs \in {IF cursor = None THEN <<>> ELSE offsets(cursor[1])} :
    \A fits \in {\A i \in 1..Len(offs) :
                    offs[i][1] >= 0 /\ offs[i][2] >= 0 /\ offs[i][1] < WIDTH} :
    \A above \in {\E i \in 1..Len(offs) : offs[i][2] >= HEIGHT} :
        /\ (last.op = "Piece::cells") =>
              /\ (yielded[1] = None) <=> ~fits
              /\ fits => (yielded[1] = Some(offs) /\ Len(yielded[1][1]) = 4)
        /\ (last.op = "Matrix::is_clipping") =>
              /\ panic = NoPanic
              /\ \A j \in 1..Len(yielded[1].reads) : on_matrix(yielded[1].reads[j])
              /\ yielded[1].ret = is_clipping(matrix, cursor[1])
              /\ (fits /\ above) => (yielded[1].ret = TRUE)
        /\ (last.op = "Matrix::is_placeable") =>
              /\ panic = NoPanic
              /\ \A j \in 1..Len(yielded[1].reads) : on_matrix(yielded[1].reads[j])
              /\ yielded[1].ret = is_placeable(matrix, cursor[1])
              /\ (fits /\ above) => (yielded[1].ret = FALSE)

(* is_clipping has been called on a piece with a cell above the top row and *)
(* its other cells on free cells of the grid: it has read cells, all on the *)
(* grid, and reports clipping.                                              *)
C20_Witness ==
    /\ last.op = "Matrix::is_clipping"
    /\ panic = NoPanic
    /\ Piece_cells(cursor[1]) # None
    /\ \E i \in 1..CELL_COUNT : Piece_cells(cursor[1])[1][i][2] >= HEIGHT
    /\ \A i \in 1..CELL_COUNT :
          on_matrix(Piece_cells(cursor[1])[1][i])
             => (index(matrix, Piece_cells(cursor[1])[1][i]) = NoColor)
    /\ Len(yielded[1].reads) >= 2
    /\ yielded[1].ret = TRUE

(* A position at least four cells from every edge of the grid: no kind's    *)
(* box of at most four by four cells reaches an edge from there.            *)
FarFromEdges(position) ==
    /\ position[1] >= 4 /\ position[1] + 4 < WIDTH
    /\ position[2] >= 4 /\ position[2] + 4 < HEIGHT

(* C21: for every kind and every rotation, Piece::cells of a piece far from  *)
(* all edges returns four coordinates that are pairwise distinct.            *)
C21_DistinctCells ==
    (last.op = "Piece::cells" /\ FarFromEdges(cursor[1].position)) =>
        /\ yielded[1] # None
        /\ Len(yielded[1][1]) = 4
        /\ \A i, j \in 1..4 : (i # j) => (yielded[1][1][i] # yielded[1][1][j])

(* Piece::cells of an I piece in rotation E at (4,10): the four cells of    *)
(* column 6, rows 13 down to 10.                                            *)
C21_Witness ==
    /\ last.op = "Piece::cells"
    /\ cursor = Some([kind |-> "I", rotation |-> "E", position |-> <<4, 10>>])
    /\ yielded = Some(Some(<< <<6, 13>>, <<6, 12>>, <<6, 11>>, <<6, 10>> >>))

(* C22: hard_drop terminates. Every iteration of its loop lowers the         *)
(* cursor's y and leaves a cursor that is not clipping, so none of its       *)
(* offsets is negative; and from every state in the loop, whatever the grid  *)
(* and the cursor, the loop is left and place_cursor is reached.             *)
C22_HardDropTerminates ==
    /\ [][ (last.ret = "while let" /\ last'.ret = "while let") =>
             /\ cursor' # None
             /\ cursor'[1].position[2] < cursor[1].position[2]
             /\ ~is_clipping(matrix, cursor'[1])
             /\ \A i \in 1..CELL_COUNT : offsets(cursor'[1])[i][2] >= 0 ]_vars
    /\ (last.ret = "while let") ~> (last.ret = "place_cursor")

(* hard_drop has returned: the loop was left, place_cursor has written the  *)
(* I piece into the bottom row of a grid that was blank, and the cursor is  *)
(* gone.                                                                    *)
C22_Witness ==
    /\ last.op = "hard_drop"
    /\ last.ret = "()"
    /\ panic = NoPanic
    /\ cursor = None
    /\ Cardinality(Occupied(matrix)) = CELL_COUNT
    /\ \A i \in Occupied(matrix) : i < WIDTH /\ matrix[i] = color("I")

====
